---------------------------- MODULE Spec2Model ----------------------------
(***************************************************************************)
(* Statement subverifier of the whack compiler front end                   *)
(* (src/src/verifier/statement.rs).                                        *)
(*                                                                         *)
(* Three specifications share the module:                                  *)
(*   SpecForIn  the pure classifier for_in_kv_types over a database        *)
(*              snapshot and a candidate drawn in the initial state;       *)
(*   SpecSuper  verify_super_stmt alone, over scope chains, class          *)
(*              hierarchies and argument-list outcomes;                    *)
(*   Spec       the recursive dispatcher verify_statement /                *)
(*              verify_statements / verify_block as a machine with an      *)
(*              explicit call stack, over statement trees that are         *)
(*              unfolded as the traversal reads them.                      *)
(***************************************************************************)
EXTENDS Integers, Sequences, FiniteSets, TLC

VARIABLES
    stack,        \* call stack of the dispatcher: frames of verify_statement(s)/verify_block
    scope,        \* the verifier's scope stack; its last element is verifier.scope()
    diagnostics,  \* the diagnostics sink, in append order
    last,         \* what the most recent step did (collaborators invoked, outcome)
    db,           \* database: the scope chain around the statements and its classes
    host,         \* database snapshot read by for_in_kv_types
    obj,          \* candidate entity handed to for_in_kv_types
    kv            \* result of the most recent for_in_kv_types call

vars == <<stack, scope, diagnostics, last, db, host, obj, kv>>

(***************************************************************************)
(* Entities read by for_in_kv_types                                        *)
(***************************************************************************)

\* Bound: how many named types of a database snapshot may be unresolved at once.
MaxUnresolved == 2

\* The canonical types the classifier asks the database for with .defer()
CanonicalNames ==
    {"Object", "Number", "String", "ByteArray", "Dictionary", "Proxy",
     "XML", "XMLList", "Array", "Vector"}

\* User classes: a subclass of Proxy, a class of none of the seven shapes, and
\* a forward declaration.
UserNames == {"MyProxy", "Point", "Fwd"}

TypeNames == CanonicalNames \cup UserNames

NoName == "-"

AnyType == [tag |-> "any", name |-> "*", of |-> NoName, wrap |-> NoName]

ClassType(n) == [tag |-> "class", name |-> n, of |-> NoName, wrap |-> NoName]

\* [T]
ArrayOf(n) == [tag |-> "array", name |-> "Array", of |-> n, wrap |-> NoName]

\* Vector.<T>
VectorOf(n) == [tag |-> "vector", name |-> "Vector", of |-> n, wrap |-> NoName]

\* T? and T!: a wrapper is an entity of its own, distinct from its base
Nullable(t) == [t EXCEPT !.wrap = "?"]

NonNullable(t) == [t EXCEPT !.wrap = "!"]

\* the entity an element name stands for
ElementType(n) == IF n = "*" THEN AnyType ELSE ClassType(n)

ElementNames == {"*", "String", "Number", "Fwd"}

\* types a wrapper can be put on (the any type takes none)
WrappableTypes ==
    {ClassType(n) : n \in TypeNames \ {"Array", "Vector"}}
        \cup {ArrayOf(n) : n \in ElementNames}
        \cup {VectorOf(n) : n \in ElementNames}

Types == {AnyType} \cup WrappableTypes
                    \cup {Nullable(t) : t \in WrappableTypes}
                    \cup {NonNullable(t) : t \in WrappableTypes}

\* Result<Option<(Entity, Entity)>, DeferError>
KvSome(k, v) == [tag |-> "Some", k |-> k, v |-> v]

KvNone == [tag |-> "None", k |-> AnyType, v |-> AnyType]

KvDefer == [tag |-> "Defer", k |-> AnyType, v |-> AnyType]

KvNotCalled == [tag |-> "NotCalled", k |-> AnyType, v |-> AnyType]

\* Database snapshots: which named types are still unresolved, and the base
\* class of the two built-ins whose declaration the library may change.
Hosts ==
    {[unresolved |-> u, parent |-> p] :
        u \in {s \in SUBSET TypeNames : Cardinality(s) <= MaxUnresolved},
        p \in [{"Dictionary", "XML"} -> {"Object", "Proxy"}]}

\* Entity::defer: Err(DeferError) for an unresolved entity
Resolved(h, n) == n \notin h.unresolved

\* the base class recorded for a class (Object is the root)
ClassParent(h, n) ==
    IF n = "Object" THEN NoName
    ELSE IF n \in DOMAIN h.parent THEN h.parent[n]
    ELSE IF n = "MyProxy" THEN "Proxy"
    ELSE "Object"

\* Result<Option<Entity>, DeferError> and Result<bool, DeferError> of the
\* structural queries
QSome(e) == [tag |-> "Some", val |-> e]

QNone == [tag |-> "None", val |-> AnyType]

QDefer == [tag |-> "Defer", val |-> AnyType]

\* Entity::array_element_type: the element type of [T]; deferral while the
\* Array type or the element type is unresolved
array_element_type(t, h) ==
    IF ~Resolved(h, "Array") THEN QDefer
    ELSE IF t.tag = "array" /\ t.wrap = NoName
         THEN IF t.of # "*" /\ ~Resolved(h, t.of) THEN QDefer
              ELSE QSome(ElementType(t.of))
         ELSE QNone

\* Entity::vector_element_type: the element type of Vector.<T>
vector_element_type(t, h) ==
    IF ~Resolved(h, "Vector") THEN QDefer
    ELSE IF t.tag = "vector" /\ t.wrap = NoName
         THEN IF t.of # "*" /\ ~Resolved(h, t.of) THEN QDefer
              ELSE QSome(ElementType(t.of))
         ELSE QNone

\* walk of the extends chain from class n looking for target
RECURSIVE ExtendsChainReaches(_, _, _)
ExtendsChainReaches(h, n, target) ==
    IF ~Resolved(h, n) THEN "Defer"
    ELSE IF ClassParent(h, n) = NoName THEN "False"
    ELSE IF ClassParent(h, n) = target THEN "True"
    ELSE ExtendsChainReaches(h, ClassParent(h, n), target)

\* Entity::is_subtype_of (proper subtype): only a class has base classes
is_subtype_of(t, super_t, h) ==
    IF t.tag = "class" /\ t.wrap = NoName
    THEN ExtendsChainReaches(h, t.name, super_t.name)
    ELSE "False"

\* a classifier prologue that strips no wrapper at all
escape_of_nothing(t) == t

\* Entity::escape_of_non_nullable: the base of a non-nullable wrapper T!,
\* any other entity as it is
escape_of_non_nullable(t) ==
    IF t.wrap = "!" THEN [t EXCEPT !.wrap = NoName] ELSE t

\* Entity::static_type of the candidate
static_type(o) == o.static_type

\* the classifier has not decided yet: control falls to the next rule
KvContinue == [tag |-> "Continue", k |-> AnyType, v |-> AnyType]

\* host.number_type().defer()? as the key type of a matched rule
WithNumberKey(h, v) ==
    IF ~Resolved(h, "Number") THEN KvDefer ELSE KvSome(ClassType("Number"), v)

\* `* or Object`: let obj_t = host.object_type().defer()?; [any, obj_t].contains(&t)
RuleAnyOrObject(t, h) ==
    IF ~Resolved(h, "Object") THEN KvDefer
    ELSE IF t \in {AnyType, ClassType("Object")} THEN KvSome(AnyType, AnyType)
    ELSE KvContinue

\* `[T]`: if let Some(elem_t) = t.array_element_type(host)?
RuleArray(t, h) ==
    LET q == array_element_type(t, h) IN
    IF q.tag = "Defer" THEN KvDefer
    ELSE IF q.tag = "Some" THEN WithNumberKey(h, q.val)
    ELSE KvContinue

\* a vector rule that takes an unresolved element-type query for "not a vector"
RuleVector_conflating(t, h) ==
    LET q == vector_element_type(t, h) IN
    IF q.tag = "Some" THEN WithNumberKey(h, q.val) ELSE KvContinue

\* `Vector.<T>`: if let Some(elem_t) = t.vector_element_type(host)?
RuleVector(t, h) ==
    LET q == vector_element_type(t, h) IN
    IF q.tag = "Defer" THEN KvDefer
    ELSE IF q.tag = "Some" THEN WithNumberKey(h, q.val)
    ELSE KvContinue

\* `ByteArray`: t == host.byte_array_type().defer()?
RuleByteArray(t, h) ==
    IF ~Resolved(h, "ByteArray") THEN KvDefer
    ELSE IF t = ClassType("ByteArray") THEN WithNumberKey(h, ClassType("Number"))
    ELSE KvContinue

\* `Dictionary`: t == host.dictionary_type().defer()?
RuleDictionary(t, h) ==
    IF ~Resolved(h, "Dictionary") THEN KvDefer
    ELSE IF t = ClassType("Dictionary") THEN KvSome(AnyType, AnyType)
    ELSE KvContinue

\* `Proxy`: t == proxy_t || t.is_subtype_of(&proxy_t, host)?  (|| short-circuits)
RuleProxy(t, h) ==
    IF ~Resolved(h, "Proxy") THEN KvDefer
    ELSE IF t # ClassType("Proxy") /\ is_subtype_of(t, ClassType("Proxy"), h) = "Defer"
         THEN KvDefer
    ELSE IF t = ClassType("Proxy") \/ is_subtype_of(t, ClassType("Proxy"), h) = "True"
         THEN IF ~Resolved(h, "String") THEN KvDefer
              ELSE KvSome(ClassType("String"), AnyType)
    ELSE KvContinue

\* `XML or XMLList`: t == host.xml_type().defer()? || t == host.xml_list_type().defer()?
RuleXml(t, h) ==
    IF ~Resolved(h, "XML") THEN KvDefer
    ELSE IF t # ClassType("XML") /\ ~Resolved(h, "XMLList") THEN KvDefer
    ELSE IF t = ClassType("XML") \/ t = ClassType("XMLList")
         THEN WithNumberKey(h, ClassType("XML"))
    ELSE KvContinue

\* the first rule of a sequence that returns; Ok(None) when control reaches the end
RECURSIVE FirstReturn(_)
FirstReturn(rs) ==
    IF rs = <<>> THEN KvNone
    ELSE IF Head(rs).tag # "Continue" THEN Head(rs)
    ELSE FirstReturn(Tail(rs))

\* a classifier that tests the proxy rule before the dictionary rule
for_in_kv_types_proxy_first(h, o) ==
    LET t == escape_of_non_nullable(static_type(o)) IN
    FirstReturn(<<RuleAnyOrObject(t, h), RuleArray(t, h), RuleVector(t, h),
                  RuleByteArray(t, h), RuleProxy(t, h), RuleDictionary(t, h),
                  RuleXml(t, h)>>)

\* StatementSubverifier::for_in_kv_types: the rules in source order, each
\* `.defer()?` and `?` an early return of the deferral
for_in_kv_types(h, o) ==
    LET t == escape_of_non_nullable(static_type(o)) IN
    FirstReturn(<<RuleAnyOrObject(t, h), RuleArray(t, h), RuleVector(t, h),
                  RuleByteArray(t, h), RuleDictionary(t, h), RuleProxy(t, h),
                  RuleXml(t, h)>>)

\* the record of a step that has not happened
Idle == [op |-> "idle"]

(***************************************************************************)
(* The verification context: scopes, diagnostics, collaborators            *)
(***************************************************************************)

\* Bounds of the statement trees, the scope chains and the signatures.
MaxDepth == 2

MaxList == 2

MaxChain == 2

MaxParams == 1

MaxDiags == 1

NoScope == [id |-> <<>>, kind |-> "None"]

\* FunctionType: required parameters, all parameters, result type
Signature(min, max) == [min |-> min, max |-> max, result |-> "void"]

Signatures ==
    {g \in {Signature(a, b) : a \in 0..MaxParams, b \in 0..MaxParams} : g.min <= g.max}

\* what the database knows of the class of a class scope: whether it extends
\* a base class, whether that class declares a constructor, its signature
NoClass == [extends |-> FALSE, ctor |-> FALSE, signature |-> Signature(0, 0)]

ClassInfos ==
    {NoClass, [NoClass EXCEPT !.extends = TRUE]}
        \cup {[extends |-> TRUE, ctor |-> TRUE, signature |-> g] : g \in Signatures}

ScopeKinds == {"Scope", "ClassScope"}

\* the scopes around the verified statements, outermost first, and the class
\* of each class scope
Dbs ==
    {[chain |-> c, classes |-> k] :
        c \in UNION {[1..n -> ScopeKinds] : n \in 1..MaxChain},
        k \in UNION {[1..n -> ClassInfos] : n \in 1..MaxChain}}

WellFormedDb(d) ==
    /\ DOMAIN d.chain = DOMAIN d.classes
    /\ \A i \in DOMAIN d.chain : d.chain[i] = "Scope" => d.classes[i] = NoClass

NoDb == [chain |-> <<>>, classes |-> <<>>]

\* the i-th scope of the chain; Scope::parent is the scope around it
RECURSIVE ChainScope(_, _)
ChainScope(d, i) ==
    IF i = 0 THEN NoScope
    ELSE [id |-> <<0, i>>, kind |-> d.chain[i], parent |-> ChainScope(d, i - 1)]

\* the scope stack a traversal starts with: the chain, innermost last
InitialScopes(d) == [i \in 1..Len(d.chain) |-> ChainScope(d, i)]

\* Subverifier::scope: the current scope
CurrentScope(sc) == IF sc = <<>> THEN NoScope ELSE sc[Len(sc)]

\* Subverifier::inherit_and_enter_scope
inherit_and_enter_scope(sc, s) == Append(sc, s)

\* Subverifier::exit_scope
exit_scope(sc) == SubSeq(sc, 1, Len(sc) - 1)

\* Scope::parent
Parent(s) == s.parent

\* scope1.is::<ClassScope>()
IsClassScope(s) == s.kind = "ClassScope"

\* scope.class().extends_class(&host): the base class, if any
extends_class(d, s) ==
    IF d.classes[s.id[2]].extends THEN d.classes[s.id[2]] ELSE NoClass

\* class_t.constructor_method(&host) / ctor.signature(&host)
constructor_method(c) == c.ctor

\* n.to_string()
to_string(n) ==
    CASE n = 0 -> "0" [] n = 1 -> "1" [] n = 2 -> "2" [] n = 3 -> "3"
      [] n = 4 -> "4" [] n = 5 -> "5" [] n = 6 -> "6" [] n = 7 -> "7"
      [] n = 8 -> "8" [] n = 9 -> "9"

\* Subverifier::add_verify_error: one more diagnostic at the end of the sink
add_verify_error(diags, location, kind, arguments) ==
    Append(diags, [location |-> location, kind |-> kind, arguments |-> arguments])

\* ArgumentsSubverifier::verify: the arity of the call against the signature,
\* or the deferral while an argument cannot be resolved yet
ArgumentsSubverifier_verify(nargs, signature, deferred) ==
    IF deferred THEN [tag |-> "Defer", n |-> 0]
    ELSE IF nargs > signature.max
         THEN IF signature.min = signature.max
              THEN [tag |-> "Expected", n |-> signature.max]
              ELSE [tag |-> "ExpectedNoMoreThan", n |-> signature.max]
    ELSE IF nargs < signature.min THEN [tag |-> "Expected", n |-> signature.min]
    ELSE [tag |-> "Ok", n |-> 0]

(***************************************************************************)
(* verify_super_stmt                                                       *)
(***************************************************************************)

\* a walk that goes on past a class scope, to the outermost one
RECURSIVE FindOutermostClassScope(_)
FindOutermostClassScope(s) ==
    IF s = NoScope THEN NoScope
    ELSE LET outer == FindOutermostClassScope(Parent(s)) IN
         IF outer # NoScope THEN outer
         ELSE IF IsClassScope(s) THEN s
         ELSE NoScope

\* a walk that starts at the parent of the scope it is given
RECURSIVE FindClassScope_above(_)
FindClassScope_above(s) ==
    IF s = NoScope THEN NoScope
    ELSE IF IsClassScope(Parent(s)) THEN Parent(s)
    ELSE FindClassScope_above(Parent(s))

\* the upward walk of lines 98-104: the first class scope from s on, or None
RECURSIVE FindClassScope(_)
FindClassScope(s) ==
    IF s = NoScope THEN NoScope
    ELSE IF IsClassScope(s) THEN s
    ELSE FindClassScope(Parent(s))

\* a signature that is synthesized whether or not a constructor is declared
SuperSignature_always_synthesized(class_t) == Signature(0, 0)

\* the signature the arguments are verified against (lines 114-119)
SuperSignature(class_t) ==
    IF constructor_method(class_t) THEN class_t.signature ELSE Signature(0, 0)

\* a match that reports a deferral only once the cycle budget is used up
SuperDiagnostics_waiting(diags, supstmt, result) ==
    CASE result.tag = "Ok" -> diags
      [] result.tag = "Expected" ->
            add_verify_error(diags, supstmt.location, "IncorrectNumArguments",
                             <<to_string(result.n)>>)
      [] result.tag = "ExpectedNoMoreThan" ->
            add_verify_error(diags, supstmt.location,
                             "IncorrectNumArgumentsNoMoreThan", <<to_string(result.n)>>)
      [] result.tag = "Defer" ->
            IF host.cycles > 0 THEN diags
            ELSE add_verify_error(diags, supstmt.location, "ReachedMaximumCycles", <<>>)

\* a match that puts what it reports in front of the sink
SuperDiagnostics_in_front(diags, supstmt, result) ==
    CASE result.tag = "Ok" -> diags
      [] result.tag = "Expected" ->
            add_verify_error(<<>>, supstmt.location, "IncorrectNumArguments",
                             <<to_string(result.n)>>) \o diags
      [] result.tag = "ExpectedNoMoreThan" ->
            add_verify_error(<<>>, supstmt.location,
                             "IncorrectNumArgumentsNoMoreThan", <<to_string(result.n)>>)
                \o diags
      [] result.tag = "Defer" ->
            add_verify_error(<<>>, supstmt.location, "ReachedMaximumCycles", <<>>)
                \o diags

\* a match that reports both arity errors with the same diagnostic kind
SuperDiagnostics_one_kind(diags, supstmt, result) ==
    CASE result.tag = "Ok" -> diags
      [] result.tag \in {"Expected", "ExpectedNoMoreThan"} ->
            add_verify_error(diags, supstmt.location, "IncorrectNumArguments",
                             <<to_string(result.n)>>)
      [] result.tag = "Defer" ->
            add_verify_error(diags, supstmt.location, "ReachedMaximumCycles", <<>>)

\* a match that leaves a deferral to the caller and reports nothing for it
SuperDiagnostics_silent_defer(diags, supstmt, result) ==
    CASE result.tag = "Ok" -> diags
      [] result.tag = "Expected" ->
            add_verify_error(diags, supstmt.location, "IncorrectNumArguments",
                             <<to_string(result.n)>>)
      [] result.tag = "ExpectedNoMoreThan" ->
            add_verify_error(diags, supstmt.location,
                             "IncorrectNumArgumentsNoMoreThan", <<to_string(result.n)>>)
      [] result.tag = "Defer" -> diags

\* the match on the argument-list verifier's result (lines 120-131)
SuperDiagnostics(diags, supstmt, result) ==
    CASE result.tag = "Ok" -> diags
      [] result.tag = "Expected" ->
            add_verify_error(diags, supstmt.location, "IncorrectNumArguments",
                             <<to_string(result.n)>>)
      [] result.tag = "ExpectedNoMoreThan" ->
            add_verify_error(diags, supstmt.location,
                             "IncorrectNumArgumentsNoMoreThan", <<to_string(result.n)>>)
      [] result.tag = "Defer" ->
            add_verify_error(diags, supstmt.location, "ReachedMaximumCycles", <<>>)

\* StatementSubverifier::verify_super_stmt: the diagnostics afterwards and the
\* collaborator calls made; the scope stack is only read
verify_super_stmt(d, sc, diags, supstmt) ==
    LET class_scope == FindClassScope(CurrentScope(sc)) IN
    IF class_scope = NoScope THEN [diagnostics |-> diags, calls |-> <<>>]
    ELSE LET class_t == extends_class(d, class_scope) IN
         IF ~class_t.extends THEN [diagnostics |-> diags, calls |-> <<>>]
         ELSE LET signature == SuperSignature(class_t)
                  result == ArgumentsSubverifier_verify(supstmt.arguments, signature,
                                                        supstmt.deferred)
              IN [diagnostics |-> SuperDiagnostics(diags, supstmt, result),
                  calls |-> <<[callee |-> "ArgumentsSubverifier::verify",
                               arguments |-> supstmt.arguments,
                               signature |-> signature,
                               result |-> result]>>]

(***************************************************************************)
(* The dispatcher as a machine with an explicit call stack                 *)
(***************************************************************************)

LeafKinds == {"ExpressionStatement", "SuperStatement"}

\* kinds the match of verify_statement has no arm for
OtherKinds == {"EmptyStatement", "ReturnStatement"}

\* kinds that hold a substatement of their own
NestingKinds ==
    {"LabeledStatement", "IfStatement", "DoStatement", "WhileStatement", "ForStatement"}

\* kinds that hold lists, which may be empty
ListKinds == {"Block", "SwitchStatement", "SwitchTypeStatement"}

StatementKinds == LeafKinds \cup OtherKinds \cup NestingKinds \cup ListKinds

\* static types an expression can resolve to
StaticTypes == {"Number"}

\* Directive / Expression location: the model tells the locations of two
\* nodes apart by the top-level statement they belong to
LocationOf(node) == node[1]

\* what a caller can observe of a scope stack: its depth and its current scope
ScopeMark(sc) == [depth |-> Len(sc), current |-> CurrentScope(sc).id]

\* one activation of verify_statement, verify_statements or verify_block:
\* the node it was called on, where it stands, its loop indices, the value of
\* its local `discriminant`, and the mark of the scope stack it was entered with
Frame(fn, kind, node, pc, sc) ==
    [fn |-> fn, kind |-> kind, node |-> node, pc |-> pc, i |-> 0, j |-> 0,
     discriminant |-> "-", entry |-> ScopeMark(sc)]

Top == stack[Len(stack)]

Pop == SubSeq(stack, 1, Len(stack) - 1)

SetTop(f) == [stack EXCEPT ![Len(stack)] = f]

Running(fn, kind, pc) ==
    /\ stack # <<>>
    /\ Top.fn = fn
    /\ Top.kind = kind
    /\ Top.pc = pc

\* nesting depth of the statement the top activation works on
StmtDepth(stk) == Cardinality({k \in DOMAIN stk : stk[k].fn = "verify_statement"})

\* kinds a statement at the next nesting level can have within the bound
ChildKinds(stk) ==
    IF StmtDepth(stk) + 1 < MaxDepth THEN StatementKinds
    ELSE StatementKinds \ NestingKinds

\* an iterator over a list of this level has a next element within the bounds
HasNext(stk, i) == StmtDepth(stk) < MaxDepth /\ i < MaxList

\* the record of a step of activation f and of the collaborator calls it made
Step(op, f, calls) ==
    [op |-> op, fn |-> f.fn, kind |-> f.kind, node |-> f.node, pc |-> f.pc,
     location |-> LocationOf(f.node), entry |-> f.entry, scope_before |-> scope,
     before |-> diagnostics, calls |-> calls]

\* nodes that own a scope of the node mapping
Scoped(f) ==
    \/ f.fn = "verify_statement" /\ f.kind \in {"Block", "ForStatement"}
    \/ f.fn = "verify_block"

\* the scope the binding pass made for the innermost scoped node among the
\* first k activations; its parent is the scope of the scoped node around it
RECURSIVE LexicalScope(_, _, _)
LexicalScope(d, stk, k) ==
    IF k = 0 THEN ChainScope(d, Len(d.chain))
    ELSE IF Scoped(stk[k])
         THEN [id |-> stk[k].node, kind |-> "Scope",
               parent |-> LexicalScope(d, stk, k - 1)]
    ELSE LexicalScope(d, stk, k - 1)

\* verifier.host.node_mapping().get(stmt).unwrap() for the node of the top activation
node_mapping_get(d, stk) == LexicalScope(d, stk, Len(stk))

MappingCall(f) == [callee |-> "node_mapping", node |-> f.node]

\* results the expression verifier can come back with: a value of a static
\* type, nothing (an error reported before, or a deferral within the cycle
\* budget), nothing with a diagnostic, nothing with the cycle-limit diagnostic
ExpressionResults ==
    {[value |-> t, diag |-> "-"] : t \in StaticTypes \cup {"None"}}
        \cup {[value |-> "None", diag |-> k] : k \in {"VerifyError", "ReachedMaximumCycles"}}

\* results of an implicit coercion of an expression to a type: the coerced
\* value, or nothing as above (a failed coercion is reported as an error)
CoercionResults(t) ==
    {[value |-> t, diag |-> "-"], [value |-> "None", diag |-> "-"]}
        \cup {[value |-> "None", diag |-> k] : k \in {"VerifyError", "ReachedMaximumCycles"}}

\* what an earlier phase of the compiler left in the sink
EarlierDiagnostics == <<[location |-> 0, kind |-> "EarlierPhase", arguments |-> <<>>]>>

\* the diagnostics of a sink that the statement verifier reported
Reported(diags) == SelectSeq(diags, LAMBDA g : g.kind # "EarlierPhase")

\* the sink of the bounded model takes the diagnostic of this result
Fits(r) == r.diag = "-" \/ Len(Reported(diagnostics)) < MaxDiags

\* Subverifier::verify_expression_or_max_cycles_error and
\* Subverifier::imp_coerce_exp_or_max_cycles_error: diagnostics afterwards
ExpressionDiagnostics(diags, location, r) ==
    IF r.diag = "-" THEN diags ELSE add_verify_error(diags, location, r.diag, <<>>)

\* the record of a call of the expression verifier on the expression `role`
\* of a node, and of a coercion of it to type t
ExpressionCall(role, node) ==
    [callee |-> "verify_expression_or_max_cycles_error", role |-> role,
     node |-> node, expected |-> "-"]

CoercionCall(role, node, t) ==
    [callee |-> "imp_coerce_exp_or_max_cycles_error", role |-> role,
     node |-> node, expected |-> t]

\* the pass driver hands a statement to verify_statement, once per pass
DriverCall ==
    /\ stack = <<>>
    /\ last = Idle
    /\ \E kind \in ChildKinds(stack) :
         LET f == Frame("verify_statement", kind, <<1>>, "start", scope) IN
         /\ stack' = <<f>>
         /\ last' = Step("call", f, <<>>)
    /\ UNCHANGED <<scope, diagnostics, db, host, obj, kv>>

\* a callee with nothing left to do returns to its caller
Return ==
    /\ stack # <<>>
    /\ Top.pc = "return"
    /\ stack' = Pop
    /\ last' = Step("return", Top, <<>>)
    /\ UNCHANGED <<scope, diagnostics, db, host, obj, kv>>

\* a fail-fast loop: the next statement is verified only while nothing has
\* been reported
VerifyStatementsNext_fail_fast ==
    /\ Running("verify_statements", "-", "loop")
    /\ HasNext(stack, Top.i)
    /\ Reported(diagnostics) = <<>>
    /\ \E kind \in ChildKinds(stack) :
         LET f == [Top EXCEPT !.i = Top.i + 1]
             c == Frame("verify_statement", kind, Top.node \o <<Top.i + 1>>,
                        "start", scope)
         IN /\ stack' = Append(SetTop(f), c)
            /\ last' = Step("call", c, <<>>)
    /\ UNCHANGED <<scope, diagnostics, db, host, obj, kv>>

\* verify_statements: `for stmt in list.iter()` calls verify_statement on the
\* next statement of the list
VerifyStatementsNext ==
    /\ Running("verify_statements", "-", "loop")
    /\ HasNext(stack, Top.i)
    /\ \E kind \in ChildKinds(stack) :
         LET f == [Top EXCEPT !.i = Top.i + 1]
             c == Frame("verify_statement", kind, Top.node \o <<Top.i + 1>>,
                        "start", scope)
         IN /\ stack' = Append(SetTop(f), c)
            /\ last' = Step("call", c, <<>>)
    /\ UNCHANGED <<scope, diagnostics, db, host, obj, kv>>

\* verify_statements: the list is exhausted
VerifyStatementsDone ==
    /\ Running("verify_statements", "-", "loop")
    /\ stack' = SetTop([Top EXCEPT !.pc = "return"])
    /\ last' = Step("step", Top, <<>>)
    /\ UNCHANGED <<scope, diagnostics, db, host, obj, kv>>

\* Directive::ExpressionStatement
ExpressionStatement ==
    /\ Running("verify_statement", "ExpressionStatement", "start")
    /\ \E r \in ExpressionResults :
         /\ Fits(r)
         /\ diagnostics' = ExpressionDiagnostics(diagnostics, LocationOf(Top.node), r)
         /\ last' = Step("step", Top, <<ExpressionCall("expression", Top.node)>>)
    /\ stack' = SetTop([Top EXCEPT !.pc = "return"])
    /\ UNCHANGED <<scope, db, host, obj, kv>>

\* Directive::SuperStatement
SuperStatement ==
    /\ Running("verify_statement", "SuperStatement", "start")
    /\ \E nargs \in 0..(MaxParams + 1), deferred \in BOOLEAN :
         LET supstmt == [location |-> LocationOf(Top.node), arguments |-> nargs,
                         deferred |-> deferred]
             out == verify_super_stmt(db, scope, diagnostics, supstmt)
         IN /\ Len(Reported(out.diagnostics)) <= MaxDiags
            /\ diagnostics' = out.diagnostics
            /\ last' = Step("step", Top, out.calls)
    /\ stack' = SetTop([Top EXCEPT !.pc = "return"])
    /\ UNCHANGED <<scope, db, host, obj, kv>>

\* a catch-all arm that verifies the statement as if it held an expression
OtherStatement_verifying ==
    /\ stack # <<>>
    /\ Top.fn = "verify_statement"
    /\ Top.kind \in OtherKinds
    /\ Top.pc = "start"
    /\ \E r \in ExpressionResults :
         /\ Fits(r)
         /\ diagnostics' = ExpressionDiagnostics(diagnostics, LocationOf(Top.node), r)
         /\ last' = Step("step", Top, <<ExpressionCall("expression", Top.node)>>)
    /\ stack' = SetTop([Top EXCEPT !.pc = "return"])
    /\ UNCHANGED <<scope, db, host, obj, kv>>

\* the catch-all arm `_ => {}`
OtherStatement ==
    /\ stack # <<>>
    /\ Top.fn = "verify_statement"
    /\ Top.kind \in OtherKinds
    /\ Top.pc = "start"
    /\ stack' = SetTop([Top EXCEPT !.pc = "return"])
    /\ last' = Step("step", Top, <<>>)
    /\ UNCHANGED <<scope, diagnostics, db, host, obj, kv>>

\* a block that enters the scope around it once more, not the one mapped to it
BlockEnter_in_scope_around ==
    /\ Running("verify_statement", "Block", "start")
    /\ stack' = Append(SetTop([Top EXCEPT !.pc = "exit"]),
                       Frame("verify_statements", "-", Top.node, "loop",
                             inherit_and_enter_scope(scope, CurrentScope(scope))))
    /\ scope' = inherit_and_enter_scope(scope, CurrentScope(scope))
    /\ last' = Step("enter", Top, <<MappingCall(Top)>>)
    /\ UNCHANGED <<diagnostics, db, host, obj, kv>>

\* Directive::Block: the scope is looked up and entered, the directives verified
BlockEnter ==
    /\ Running("verify_statement", "Block", "start")
    /\ stack' = Append(SetTop([Top EXCEPT !.pc = "exit"]),
                       Frame("verify_statements", "-", Top.node, "loop",
                             inherit_and_enter_scope(scope, node_mapping_get(db, stack))))
    /\ scope' = inherit_and_enter_scope(scope, node_mapping_get(db, stack))
    /\ last' = Step("enter", Top, <<MappingCall(Top)>>)
    /\ UNCHANGED <<diagnostics, db, host, obj, kv>>

\* Directive::Block: verifier.exit_scope() after the directives
BlockExit ==
    /\ Running("verify_statement", "Block", "exit")
    /\ scope' = exit_scope(scope)
    /\ stack' = SetTop([Top EXCEPT !.pc = "return"])
    /\ last' = Step("step", Top, <<>>)
    /\ UNCHANGED <<diagnostics, db, host, obj, kv>>

\* Directive::LabeledStatement
LabeledStatement ==
    /\ Running("verify_statement", "LabeledStatement", "start")
    /\ \E kind \in ChildKinds(stack) :
         LET c == Frame("verify_statement", kind, Top.node \o <<1>>, "start", scope) IN
         /\ stack' = Append(SetTop([Top EXCEPT !.pc = "return"]), c)
         /\ last' = Step("call", c, <<>>)
    /\ UNCHANGED <<scope, diagnostics, db, host, obj, kv>>

\* Directive::IfStatement: the test, then the consequent
IfTest ==
    /\ Running("verify_statement", "IfStatement", "start")
    /\ \E r \in ExpressionResults, kind \in ChildKinds(stack) :
         /\ Fits(r)
         /\ diagnostics' = ExpressionDiagnostics(diagnostics, LocationOf(Top.node), r)
         /\ stack' = Append(SetTop([Top EXCEPT !.pc = "alternative"]),
                            Frame("verify_statement", kind, Top.node \o <<1>>,
                                  "start", scope))
         /\ last' = Step("step", Top, <<ExpressionCall("test", Top.node)>>)
    /\ UNCHANGED <<scope, db, host, obj, kv>>

\* Directive::IfStatement: the alternative, if the statement has one
IfAlternative ==
    /\ Running("verify_statement", "IfStatement", "alternative")
    /\ \/ \E kind \in ChildKinds(stack) :
            LET c == Frame("verify_statement", kind, Top.node \o <<2>>, "start", scope) IN
            /\ stack' = Append(SetTop([Top EXCEPT !.pc = "return"]), c)
            /\ last' = Step("call", c, <<>>)
       \/ /\ stack' = SetTop([Top EXCEPT !.pc = "return"])
          /\ last' = Step("step", Top, <<>>)
    /\ UNCHANGED <<scope, diagnostics, db, host, obj, kv>>

\* Directive::SwitchStatement: the discriminant is verified and kept
SwitchDiscriminant ==
    /\ Running("verify_statement", "SwitchStatement", "start")
    /\ \E r \in ExpressionResults :
         /\ Fits(r)
         /\ diagnostics' = ExpressionDiagnostics(diagnostics, LocationOf(Top.node), r)
         /\ stack' = SetTop([Top EXCEPT !.pc = "cases", !.discriminant = r.value])
         /\ last' = Step("step", Top, <<ExpressionCall("discriminant", Top.node)>>)
    /\ UNCHANGED <<scope, db, host, obj, kv>>

\* Directive::SwitchStatement: `for case in swstmt.cases.iter()`
SwitchCase ==
    /\ Running("verify_statement", "SwitchStatement", "cases")
    /\ \/ /\ HasNext(stack, Top.i)
          /\ stack' = SetTop([Top EXCEPT !.pc = "labels", !.i = Top.i + 1, !.j = 0])
          /\ last' = Step("step", Top, <<>>)
       \/ /\ stack' = SetTop([Top EXCEPT !.pc = "return"])
          /\ last' = Step("step", Top, <<>>)
    /\ UNCHANGED <<scope, diagnostics, db, host, obj, kv>>

\* a `case` label coerced whether or not the discriminant has a value
SwitchLabelCoerce_always ==
    /\ Running("verify_statement", "SwitchStatement", "labels")
    /\ Top.j < MaxList
    /\ \E r \in CoercionResults(Top.discriminant) :
         /\ Fits(r)
         /\ diagnostics' = ExpressionDiagnostics(diagnostics, LocationOf(Top.node), r)
         /\ stack' = SetTop([Top EXCEPT !.j = Top.j + 1])
         /\ last' = Step("step", [Top EXCEPT !.j = Top.j + 1],
                         <<CoercionCall("label", Top.node \o <<Top.i, Top.j + 1>>,
                                        Top.discriminant)>>)
    /\ UNCHANGED <<scope, db, host, obj, kv>>

\* Directive::SwitchStatement: `for label in case.labels.iter()`, a `case`
\* label with a discriminant value
SwitchLabelCoerce ==
    /\ Running("verify_statement", "SwitchStatement", "labels")
    /\ Top.j < MaxList
    /\ Top.discriminant # "None"
    /\ \E r \in CoercionResults(Top.discriminant) :
         /\ Fits(r)
         /\ diagnostics' = ExpressionDiagnostics(diagnostics, LocationOf(Top.node), r)
         /\ stack' = SetTop([Top EXCEPT !.j = Top.j + 1])
         /\ last' = Step("step", [Top EXCEPT !.j = Top.j + 1],
                         <<CoercionCall("label", Top.node \o <<Top.i, Top.j + 1>>,
                                        Top.discriminant)>>)
    /\ UNCHANGED <<scope, db, host, obj, kv>>

\* a `case` label without a discriminant value
SwitchLabelVerify ==
    /\ Running("verify_statement", "SwitchStatement", "labels")
    /\ Top.j < MaxList
    /\ Top.discriminant = "None"
    /\ \E r \in ExpressionResults :
         /\ Fits(r)
         /\ diagnostics' = ExpressionDiagnostics(diagnostics, LocationOf(Top.node), r)
         /\ stack' = SetTop([Top EXCEPT !.j = Top.j + 1])
         /\ last' = Step("step", [Top EXCEPT !.j = Top.j + 1],
                         <<ExpressionCall("label", Top.node \o <<Top.i, Top.j + 1>>)>>)
    /\ UNCHANGED <<scope, db, host, obj, kv>>

\* a `default` label
SwitchLabelDefault ==
    /\ Running("verify_statement", "SwitchStatement", "labels")
    /\ Top.j < MaxList
    /\ stack' = SetTop([Top EXCEPT !.j = Top.j + 1])
    /\ last' = Step("default", [Top EXCEPT !.j = Top.j + 1], <<>>)
    /\ UNCHANGED <<scope, diagnostics, db, host, obj, kv>>

\* a case whose directives are verified only while nothing has been reported
SwitchCaseDirectives_unless_reported ==
    /\ Running("verify_statement", "SwitchStatement", "labels")
    /\ Reported(diagnostics) = <<>>
    /\ stack' = Append(SetTop([Top EXCEPT !.pc = "cases", !.j = 0]),
                       Frame("verify_statements", "-", Top.node \o <<Top.i>>,
                             "loop", scope))
    /\ last' = Step("directives", Top, <<>>)
    /\ UNCHANGED <<scope, diagnostics, db, host, obj, kv>>

\* Directive::SwitchStatement: the labels are done, the case's directives follow
SwitchCaseDirectives ==
    /\ Running("verify_statement", "SwitchStatement", "labels")
    /\ stack' = Append(SetTop([Top EXCEPT !.pc = "cases", !.j = 0]),
                       Frame("verify_statements", "-", Top.node \o <<Top.i>>,
                             "loop", scope))
    /\ last' = Step("directives", Top, <<>>)
    /\ UNCHANGED <<scope, diagnostics, db, host, obj, kv>>

\* Directive::SwitchTypeStatement: the discriminant
SwitchTypeDiscriminant ==
    /\ Running("verify_statement", "SwitchTypeStatement", "start")
    /\ \E r \in ExpressionResults :
         /\ Fits(r)
         /\ diagnostics' = ExpressionDiagnostics(diagnostics, LocationOf(Top.node), r)
         /\ stack' = SetTop([Top EXCEPT !.pc = "cases"])
         /\ last' = Step("step", Top, <<ExpressionCall("discriminant", Top.node)>>)
    /\ UNCHANGED <<scope, db, host, obj, kv>>

\* Directive::SwitchTypeStatement: `for case in swstmt.cases.iter()` calls
\* verify_block on the case's block
SwitchTypeCase ==
    /\ Running("verify_statement", "SwitchTypeStatement", "cases")
    /\ \/ /\ HasNext(stack, Top.i)
          /\ LET c == Frame("verify_block", "-", Top.node \o <<Top.i + 1>>,
                            "start", scope)
             IN /\ stack' = Append(SetTop([Top EXCEPT !.i = Top.i + 1]), c)
                /\ last' = Step("call", c, <<>>)
       \/ /\ stack' = SetTop([Top EXCEPT !.pc = "return"])
          /\ last' = Step("step", Top, <<>>)
    /\ UNCHANGED <<scope, diagnostics, db, host, obj, kv>>

\* verify_block: the scope is looked up and entered, the directives verified
VerifyBlockEnter ==
    /\ Running("verify_block", "-", "start")
    /\ stack' = Append(SetTop([Top EXCEPT !.pc = "exit"]),
                       Frame("verify_statements", "-", Top.node, "loop",
                             inherit_and_enter_scope(scope, node_mapping_get(db, stack))))
    /\ scope' = inherit_and_enter_scope(scope, node_mapping_get(db, stack))
    /\ last' = Step("enter", Top, <<MappingCall(Top)>>)
    /\ UNCHANGED <<diagnostics, db, host, obj, kv>>

\* a verify_block that returns without leaving the scope of its block
VerifyBlockExit_without_exit_scope ==
    /\ Running("verify_block", "-", "exit")
    /\ stack' = SetTop([Top EXCEPT !.pc = "return"])
    /\ last' = Step("step", Top, <<>>)
    /\ UNCHANGED <<scope, diagnostics, db, host, obj, kv>>

\* verify_block: verifier.exit_scope()
VerifyBlockExit ==
    /\ Running("verify_block", "-", "exit")
    /\ scope' = exit_scope(scope)
    /\ stack' = SetTop([Top EXCEPT !.pc = "return"])
    /\ last' = Step("step", Top, <<>>)
    /\ UNCHANGED <<diagnostics, db, host, obj, kv>>

\* a do statement that verifies its test before its body, as a while does
DoBody_after_test ==
    /\ Running("verify_statement", "DoStatement", "start")
    /\ \E r \in ExpressionResults, kind \in ChildKinds(stack) :
         /\ Fits(r)
         /\ diagnostics' = ExpressionDiagnostics(diagnostics, LocationOf(Top.node), r)
         /\ stack' = Append(SetTop([Top EXCEPT !.pc = "return"]),
                            Frame("verify_statement", kind, Top.node \o <<1>>,
                                  "start", scope))
         /\ last' = Step("step", Top, <<ExpressionCall("test", Top.node)>>)
    /\ UNCHANGED <<scope, db, host, obj, kv>>

\* Directive::DoStatement: the body first
DoBody ==
    /\ Running("verify_statement", "DoStatement", "start")
    /\ \E kind \in ChildKinds(stack) :
         LET c == Frame("verify_statement", kind, Top.node \o <<1>>, "start", scope) IN
         /\ stack' = Append(SetTop([Top EXCEPT !.pc = "test"]), c)
         /\ last' = Step("call", c, <<>>)
    /\ UNCHANGED <<scope, diagnostics, db, host, obj, kv>>

\* Directive::DoStatement: the test after the body
DoTest ==
    /\ Running("verify_statement", "DoStatement", "test")
    /\ \E r \in ExpressionResults :
         /\ Fits(r)
         /\ diagnostics' = ExpressionDiagnostics(diagnostics, LocationOf(Top.node), r)
         /\ last' = Step("step", Top, <<ExpressionCall("test", Top.node)>>)
    /\ stack' = SetTop([Top EXCEPT !.pc = "return"])
    /\ UNCHANGED <<scope, db, host, obj, kv>>

\* Directive::WhileStatement: the test, then the body
WhileTest ==
    /\ Running("verify_statement", "WhileStatement", "start")
    /\ \E r \in ExpressionResults, kind \in ChildKinds(stack) :
         /\ Fits(r)
         /\ diagnostics' = ExpressionDiagnostics(diagnostics, LocationOf(Top.node), r)
         /\ stack' = Append(SetTop([Top EXCEPT !.pc = "return"]),
                            Frame("verify_statement", kind, Top.node \o <<1>>,
                                  "start", scope))
         /\ last' = Step("step", Top, <<ExpressionCall("test", Top.node)>>)
    /\ UNCHANGED <<scope, db, host, obj, kv>>

\* a for statement that looks its scope up and does not enter it
ForEnter_without_scope ==
    /\ Running("verify_statement", "ForStatement", "start")
    /\ stack' = SetTop([Top EXCEPT !.pc = "init"])
    /\ last' = Step("enter", Top, <<MappingCall(Top)>>)
    /\ UNCHANGED <<scope, diagnostics, db, host, obj, kv>>

\* Directive::ForStatement: the loop's scope is looked up and entered
ForEnter ==
    /\ Running("verify_statement", "ForStatement", "start")
    /\ scope' = inherit_and_enter_scope(scope, node_mapping_get(db, stack))
    /\ stack' = SetTop([Top EXCEPT !.pc = "init"])
    /\ last' = Step("enter", Top, <<MappingCall(Top)>>)
    /\ UNCHANGED <<diagnostics, db, host, obj, kv>>

\* Directive::ForStatement: an expression initializer is verified; a variable
\* definition or no initializer is passed over
ForInit ==
    /\ Running("verify_statement", "ForStatement", "init")
    /\ \/ \E r \in ExpressionResults :
            /\ Fits(r)
            /\ diagnostics' = ExpressionDiagnostics(diagnostics, LocationOf(Top.node), r)
            /\ last' = Step("step", Top, <<ExpressionCall("init", Top.node)>>)
       \/ /\ diagnostics' = diagnostics
          /\ last' = Step("step", Top, <<>>)
    /\ stack' = SetTop([Top EXCEPT !.pc = "test"])
    /\ UNCHANGED <<scope, db, host, obj, kv>>

\* Directive::ForStatement: the test, if present
ForTest ==
    /\ Running("verify_statement", "ForStatement", "test")
    /\ \/ \E r \in ExpressionResults :
            /\ Fits(r)
            /\ diagnostics' = ExpressionDiagnostics(diagnostics, LocationOf(Top.node), r)
            /\ last' = Step("step", Top, <<ExpressionCall("test", Top.node)>>)
       \/ /\ diagnostics' = diagnostics
          /\ last' = Step("step", Top, <<>>)
    /\ stack' = SetTop([Top EXCEPT !.pc = "update"])
    /\ UNCHANGED <<scope, db, host, obj, kv>>

\* Directive::ForStatement: the update, if present
ForUpdate ==
    /\ Running("verify_statement", "ForStatement", "update")
    /\ \/ \E r \in ExpressionResults :
            /\ Fits(r)
            /\ diagnostics' = ExpressionDiagnostics(diagnostics, LocationOf(Top.node), r)
            /\ last' = Step("step", Top, <<ExpressionCall("update", Top.node)>>)
       \/ /\ diagnostics' = diagnostics
          /\ last' = Step("step", Top, <<>>)
    /\ stack' = SetTop([Top EXCEPT !.pc = "body"])
    /\ UNCHANGED <<scope, db, host, obj, kv>>

\* Directive::ForStatement: the body
ForBody ==
    /\ Running("verify_statement", "ForStatement", "body")
    /\ \E kind \in ChildKinds(stack) :
         LET c == Frame("verify_statement", kind, Top.node \o <<1>>, "start", scope) IN
         /\ stack' = Append(SetTop([Top EXCEPT !.pc = "exit"]), c)
         /\ last' = Step("call", c, <<>>)
    /\ UNCHANGED <<scope, diagnostics, db, host, obj, kv>>

\* a for statement that returns without leaving its scope
ForExit_without_exit_scope ==
    /\ Running("verify_statement", "ForStatement", "exit")
    /\ stack' = SetTop([Top EXCEPT !.pc = "return"])
    /\ last' = Step("step", Top, <<>>)
    /\ UNCHANGED <<scope, diagnostics, db, host, obj, kv>>

\* Directive::ForStatement: verifier.exit_scope() after the body
ForExit ==
    /\ Running("verify_statement", "ForStatement", "exit")
    /\ scope' = exit_scope(scope)
    /\ stack' = SetTop([Top EXCEPT !.pc = "return"])
    /\ last' = Step("step", Top, <<>>)
    /\ UNCHANGED <<diagnostics, db, host, obj, kv>>

(***************************************************************************)
(* Spec: the dispatcher over every statement tree within the bounds        *)
(***************************************************************************)

\* a fixed snapshot for the variables of the classifier
QuietHost == [unresolved |-> {}, parent |-> [n \in {"Dictionary", "XML"} |-> "Object"]]

QuietObj == [static_type |-> AnyType]

\* the base class of the model's class declares a one-parameter constructor
DerivedClass == [extends |-> TRUE, ctor |-> TRUE, signature |-> Signature(1, 1)]

\* the traversal runs in the body of a constructor of a derived class
TraversalDbs ==
    {[chain |-> <<"ClassScope", "Scope">>, classes |-> <<DerivedClass, NoClass>>]}

Init ==
    /\ db \in TraversalDbs
    /\ stack = <<>>
    /\ scope = InitialScopes(db)
    /\ diagnostics = EarlierDiagnostics
    /\ last = Idle
    /\ host = QuietHost
    /\ obj = QuietObj
    /\ kv = KvNotCalled

Next ==
    \/ DriverCall
    \/ Return
    \/ VerifyStatementsNext
    \/ VerifyStatementsDone
    \/ ExpressionStatement
    \/ SuperStatement
    \/ OtherStatement
    \/ BlockEnter
    \/ BlockExit
    \/ LabeledStatement
    \/ IfTest
    \/ IfAlternative
    \/ SwitchDiscriminant
    \/ SwitchCase
    \/ SwitchLabelCoerce
    \/ SwitchLabelVerify
    \/ SwitchLabelDefault
    \/ SwitchCaseDirectives
    \/ SwitchTypeDiscriminant
    \/ SwitchTypeCase
    \/ VerifyBlockEnter
    \/ VerifyBlockExit
    \/ DoBody
    \/ DoTest
    \/ WhileTest
    \/ ForEnter
    \/ ForInit
    \/ ForTest
    \/ ForUpdate
    \/ ForBody
    \/ ForExit

Spec == Init /\ [][Next]_vars

(***************************************************************************)
(* SpecSuper: one super statement verified in every scope chain and class  *)
(* hierarchy within the bounds                                             *)
(***************************************************************************)

\* passes of the cycle budget a compilation can have left
MaxCycles == 2

\* the database of a super statement's verification: nothing unresolved for
\* the classifier, and some passes of the cycle budget left
SuperHosts ==
    {[unresolved |-> QuietHost.unresolved, parent |-> QuietHost.parent, cycles |-> c] :
        c \in 0..MaxCycles}

InitSuper ==
    /\ db \in {d \in Dbs : WellFormedDb(d)}
    /\ scope = InitialScopes(db)
    /\ \E k \in 1..MaxList :
         stack = <<Frame("verify_statement", "SuperStatement", <<k>>, "start", scope)>>
    /\ diagnostics \in {<<>>, EarlierDiagnostics}
    /\ last = Idle
    /\ host \in SuperHosts
    /\ obj = QuietObj
    /\ kv = KvNotCalled

NextSuper ==
    \/ SuperStatement
    \/ Return

SpecSuper == InitSuper /\ [][NextSuper]_vars

(***************************************************************************)
(* SpecForIn: the classifier applied to every candidate of every snapshot  *)
(***************************************************************************)

InitForIn ==
    /\ host \in Hosts
    /\ obj \in {[static_type |-> t] : t \in Types}
    /\ kv = KvNotCalled
    /\ stack = <<>>
    /\ scope = <<>>
    /\ diagnostics = <<>>
    /\ last = Idle
    /\ db = NoDb

\* the record of the first and of a repeated call of the classifier
FirstCall == [op |-> "first"]

RepeatedCall == [op |-> "again"]

\* a classifier whose queries resolve the pending types of the database
ForInKvTypes_resolving ==
    /\ last # RepeatedCall
    /\ kv' = for_in_kv_types(host, obj)
    /\ last' = IF last = Idle THEN FirstCall ELSE RepeatedCall
    /\ host' = [host EXCEPT !.unresolved = {}]
    /\ UNCHANGED <<stack, scope, diagnostics, db, obj>>

\* a caller asks for the key/value types of the candidate, and asks again:
\* the function takes &Database and &Entity and no verifier
ForInKvTypes ==
    /\ last # RepeatedCall
    /\ kv' = for_in_kv_types(host, obj)
    /\ last' = IF last = Idle THEN FirstCall ELSE RepeatedCall
    /\ UNCHANGED <<stack, scope, diagnostics, db, host, obj>>

NextForIn == ForInKvTypes

SpecForIn == InitForIn /\ [][NextForIn]_vars

(***************************************************************************)
(* Properties of for_in_kv_types (checked under SpecForIn)                 *)
(***************************************************************************)

\* the type the rules are tested against
Classified == escape_of_non_nullable(static_type(obj))

Called == kv.tag # "NotCalled"

\* the classes the subtype walk from class n visits before it meets target
RECURSIVE ChainBelow(_, _, _)
ChainBelow(h, n, target) ==
    IF ClassParent(h, n) \in {NoName, target} THEN {n}
    ELSE {n} \cup ChainBelow(h, ClassParent(h, n), target)

\* the proper ancestors of class n
RECURSIVE Ancestors(_, _)
Ancestors(h, n) ==
    IF ClassParent(h, n) = NoName THEN {}
    ELSE {ClassParent(h, n)} \cup Ancestors(h, ClassParent(h, n))

IsPlainClass(t) == t.tag = "class" /\ t.wrap = NoName

\* the shape rule i of section 4.3 asks for
Shape(i, t, h) ==
    CASE i = 1 -> t = AnyType \/ t = ClassType("Object")
      [] i = 2 -> t.tag = "array" /\ t.wrap = NoName
      [] i = 3 -> t.tag = "vector" /\ t.wrap = NoName
      [] i = 4 -> t = ClassType("ByteArray")
      [] i = 5 -> t = ClassType("Dictionary")
      [] i = 6 -> t = ClassType("Proxy")
                    \/ (IsPlainClass(t) /\ "Proxy" \in Ancestors(h, t.name))
      [] i = 7 -> t = ClassType("XML") \/ t = ClassType("XMLList")

\* some query rule i makes for t cannot be resolved in snapshot h
QueryUnresolved(i, t, h) ==
    CASE i = 1 -> "Object" \in h.unresolved
      [] i = 2 -> "Array" \in h.unresolved
                    \/ (Shape(2, t, h) /\ t.of \in h.unresolved)
      [] i = 3 -> "Vector" \in h.unresolved
                    \/ (Shape(3, t, h) /\ t.of \in h.unresolved)
      [] i = 4 -> "ByteArray" \in h.unresolved
      [] i = 5 -> "Dictionary" \in h.unresolved
      [] i = 6 -> "Proxy" \in h.unresolved
                    \/ (IsPlainClass(t) /\ t # ClassType("Proxy")
                          /\ ChainBelow(h, t.name, "Proxy") \cap h.unresolved # {})
      [] i = 7 -> "XML" \in h.unresolved
                    \/ (t # ClassType("XML") /\ "XMLList" \in h.unresolved)

\* the first rule whose shape t has; 8 when it has none
FirstMatch(t, h) ==
    IF \E i \in 1..7 : Shape(i, t, h)
    THEN CHOOSE i \in 1..7 : Shape(i, t, h) /\ \A j \in 1..(i - 1) : ~Shape(j, t, h)
    ELSE 8

\* C2: Ok(None) is returned only when every query was resolved and no rule
\* matched; a query that is unresolved at or before the first matching rule
\* makes the result the deferral, never Ok(None) and never Ok(Some(..)).
C2_DeferralNeverConflated ==
    Called =>
        /\ kv.tag = "None" =>
              \A i \in 1..7 : ~QueryUnresolved(i, Classified, host)
                                /\ ~Shape(i, Classified, host)
        /\ (\E i \in 1..7 : i <= FirstMatch(Classified, host)
                              /\ QueryUnresolved(i, Classified, host))
              => kv.tag = "Defer"

\* a vector of an unresolved forward declaration, everything else resolved
C2_Witness ==
    /\ Called
    /\ obj.static_type = VectorOf("Fwd")
    /\ host.unresolved = {"Fwd"}
    /\ kv = KvDefer

\* every query the classifier can make for t is resolved
AllResolved(t, h) ==
    /\ \A i \in 1..7 : ~QueryUnresolved(i, t, h)
    /\ {"Number", "String"} \cap h.unresolved = {}

\* the key/value types section 4.3 lists for rule i
RuleResult(i, t) ==
    CASE i = 1 -> KvSome(AnyType, AnyType)
      [] i = 2 -> KvSome(ClassType("Number"), ElementType(t.of))
      [] i = 3 -> KvSome(ClassType("Number"), ElementType(t.of))
      [] i = 4 -> KvSome(ClassType("Number"), ClassType("Number"))
      [] i = 5 -> KvSome(AnyType, AnyType)
      [] i = 6 -> KvSome(ClassType("String"), AnyType)
      [] i = 7 -> KvSome(ClassType("Number"), ClassType("XML"))
      [] i = 8 -> KvNone

\* C3: with everything resolved the result is that of the first matching rule
\* in the order any/Object, array, vector, byte array, dictionary, proxy,
\* XML/XMLList, and Ok(None) when no rule matches.
C3_FirstMatchingRule ==
    (Called /\ AllResolved(Classified, host))
        => kv = RuleResult(FirstMatch(Classified, host), Classified)

\* a dictionary type that is also a subtype of the proxy type gets (any, any)
C3_Witness ==
    /\ Called
    /\ AllResolved(Classified, host)
    /\ obj.static_type = ClassType("Dictionary")
    /\ Shape(5, Classified, host) /\ Shape(6, Classified, host)
    /\ kv = KvSome(AnyType, AnyType)

\* the entity a wrapper was put on
BaseOf(t) == [t EXCEPT !.wrap = NoName]

ForInStep ==
    /\ UNCHANGED <<host, obj, db, diagnostics, scope, stack>>
    /\ Called => kv' = kv

SuperVerified == last.op = "step" /\ last.kind = "SuperStatement"

\* positions of the class scopes on the chain around the statement
ClassScopes == {i \in DOMAIN db.chain : db.chain[i] = "ClassScope"}

\* the class scope nearest to the statement
NearestClassScope == CHOOSE i \in ClassScopes : \A k \in ClassScopes : k <= i

\* the statement stands in a class that has a base class
InClassWithBase == ClassScopes # {} /\ db.classes[NearestClassScope].extends

Diagnostic(location, kind, arguments) ==
    [location |-> location, kind |-> kind, arguments |-> arguments]

\* C4: in a class with a base class the argument-list verifier is consulted
\* once and its outcome is translated one for one: success appends nothing,
\* `expected exactly N` appends one IncorrectNumArguments carrying N and
\* `expected no more than N` one IncorrectNumArgumentsNoMoreThan carrying N,
\* both at the location of the super statement
C4_ArityOutcomeOneForOne ==
    (SuperVerified /\ InClassWithBase) =>
        /\ Len(last.calls) = 1
        /\ LET result == last.calls[1].result IN
           /\ result.tag = "Ok" => diagnostics = last.before
           /\ result.tag = "Expected" =>
                diagnostics = Append(last.before,
                    Diagnostic(last.location, "IncorrectNumArguments",
                               <<to_string(result.n)>>))
           /\ result.tag = "ExpectedNoMoreThan" =>
                diagnostics = Append(last.before,
                    Diagnostic(last.location, "IncorrectNumArgumentsNoMoreThan",
                               <<to_string(result.n)>>))

\* a constructor taking up to one argument was called with two
C4_Witness ==
    /\ SuperVerified
    /\ InClassWithBase
    /\ last.calls[1].signature = Signature(0, 1)
    /\ last.calls[1].arguments = 2
    /\ diagnostics = <<Diagnostic(last.location, "IncorrectNumArgumentsNoMoreThan", <<"1">>)>>

\* C5: without a class scope on the parent chain, or in a class without a
\* base class, a super statement is verified (the step is always possible),
\* appends no diagnostic, consults no collaborator and leaves the scope stack
\* as it was
C5_NoClassNoEffect ==
    /\ (Running("verify_statement", "SuperStatement", "start") /\ ~InClassWithBase)
            => ENABLED SuperStatement
    /\ (SuperVerified /\ ~InClassWithBase) =>
            /\ diagnostics = last.before
            /\ last.calls = <<>>
            /\ scope = last.scope_before

\* the class scope is the parent of the current scope and its class has no base
C5_Witness ==
    /\ SuperVerified
    /\ db.chain = <<"ClassScope", "Scope">>
    /\ ~db.classes[1].extends
    /\ last.calls = <<>>
    /\ diagnostics = <<>>

\* the argument-list verifier deferred at the step just taken
SuperDeferred ==
    /\ SuperVerified
    /\ last.calls # <<>>
    /\ last.calls[1].result.tag = "Defer"

\* C9 as claimed: a deferral of the argument-list verifier is not turned into
\* a definite error inside the dispatcher
C9_DeferralNotCollapsed == SuperDeferred => diagnostics = last.before

\* C9: a deferral of the argument-list verifier is turned, inside the
\* dispatcher, into one ReachedMaximumCycles diagnostic at the location of the
\* super statement, and the statement goes on to return like any other
C9_DeferralBecomesDiagnostic ==
    SuperDeferred =>
        /\ diagnostics = Append(last.before,
                Diagnostic(last.location, "ReachedMaximumCycles", <<>>))
        /\ Top.pc = "return"

C9_Witness ==
    /\ SuperDeferred
    /\ diagnostics = <<Diagnostic(last.location, "ReachedMaximumCycles", <<>>)>>

\* C13: when the argument-list verifier defers, verify_super_stmt appends
\* exactly one ReachedMaximumCycles diagnostic without arguments at the
\* location of the super statement and returns, the statement is not taken up
\* again, and this is so however many passes of the cycle budget are left
C13_DeferReportedAtOnce ==
    SuperDeferred =>
        /\ Len(diagnostics) = Len(last.before) + 1
        /\ SubSeq(diagnostics, 1, Len(last.before)) = last.before
        /\ diagnostics[Len(diagnostics)].kind = "ReachedMaximumCycles"
        /\ diagnostics[Len(diagnostics)].arguments = <<>>
        /\ diagnostics[Len(diagnostics)].location = last.location
        /\ Top.pc = "return"
        /\ ~ENABLED SuperStatement

\* the deferral was reported with every pass of the budget still left
C13_Witness ==
    /\ SuperDeferred
    /\ host.cycles = MaxCycles
    /\ last.before = EarlierDiagnostics
    /\ diagnostics[2].kind = "ReachedMaximumCycles"

\* the base class of the class the statement stands in
BaseClass == db.classes[NearestClassScope]

\* C14: the arguments of a super-call are verified once, against the
\* signature of the base class's constructor when it declares one and against
\* a signature with no parameters and a void result when it declares none
C14_SignatureOfBaseConstructor ==
    (SuperVerified /\ InClassWithBase) =>
        /\ Len(last.calls) = 1
        /\ last.calls[1].callee = "ArgumentsSubverifier::verify"
        /\ IF BaseClass.ctor
           THEN last.calls[1].signature = BaseClass.signature
           ELSE /\ last.calls[1].signature.min = 0
                /\ last.calls[1].signature.max = 0
                /\ last.calls[1].signature.result = "void"

\* a base class without a constructor was called with one argument
C14_Witness ==
    /\ SuperVerified
    /\ InClassWithBase
    /\ ~BaseClass.ctor
    /\ last.calls[1].arguments = 1
    /\ last.calls[1].signature = Signature(0, 0)
    /\ last.calls[1].result.tag = "Expected"

\* C20: the class scope of a super statement is the innermost class scope on
\* the parent chain that starts at, and includes, the current scope: the
\* walk finds it whenever there is one and nothing otherwise, a class scope
\* further out is not looked at, the statement can always be verified, and
\* verifying it leaves the scope stack as it was
C20_InnermostClassScope ==
    /\ FindClassScope(CurrentScope(scope)) =
            IF ClassScopes = {} THEN NoScope ELSE scope[NearestClassScope]
    /\ Running("verify_statement", "SuperStatement", "start") => ENABLED SuperStatement
    /\ SuperVerified =>
            /\ scope = last.scope_before
            /\ scope = InitialScopes(db)
            /\ last.calls # <<>> <=> InClassWithBase
            /\ last.calls # <<>> =>
                    last.calls[1].signature \in {BaseClass.signature, Signature(0, 0)}

\* the current scope is a class scope in the scope of another class, whose
\* base class takes no arguments: the call is held against the inner one
C20_Witness ==
    /\ SuperVerified
    /\ db.chain = <<"ClassScope", "ClassScope">>
    /\ db.classes[1] = [extends |-> TRUE, ctor |-> TRUE, signature |-> Signature(0, 0)]
    /\ db.classes[2] = [extends |-> TRUE, ctor |-> TRUE, signature |-> Signature(1, 1)]
    /\ CurrentScope(scope).kind = "ClassScope"
    /\ last.calls[1].arguments = 0
    /\ last.calls[1].result = [tag |-> "Expected", n |-> 1]

(***************************************************************************)
(* Properties of the dispatcher (checked under Spec)                       *)
(***************************************************************************)

\* C1: when verify_statement returns, the depth of the scope stack and the
\* current scope are what they were when it was called, for a statement of
\* any kind at any nesting and whatever was reported inside it
C1_ScopeBalanced ==
    (last.op = "return" /\ last.fn = "verify_statement") =>
        ScopeMark(scope) = last.entry

\* the block that is the body of a for statement has returned into the scope
\* of the for statement, after a diagnostic of the for statement's expressions
C1_Witness ==
    /\ last.op = "return"
    /\ last.fn = "verify_statement"
    /\ last.kind = "Block"
    /\ Len(stack) = 1
    /\ Top.kind = "ForStatement"
    /\ last.entry.depth = Len(db.chain) + 1
    /\ ScopeMark(scope).current = Top.node
    /\ Reported(diagnostics) # <<>>

\* the step just taken handled a label of a switch case
LabelHandled ==
    /\ last.op \in {"step", "default"}
    /\ last.kind = "SwitchStatement"
    /\ last.pc = "labels"

\* C6: a `case` label is coerced to the static type of the discriminant when
\* the discriminant produced a value and is verified with no expected type
\* otherwise; a `default` label verifies nothing
C6_SwitchLabels ==
    LabelHandled =>
        IF last.op = "default"
        THEN last.calls = <<>> /\ diagnostics = last.before
        ELSE /\ Len(last.calls) = 1
             /\ IF Top.discriminant # "None"
                THEN /\ last.calls[1].callee = "imp_coerce_exp_or_max_cycles_error"
                     /\ last.calls[1].expected = Top.discriminant
                ELSE /\ last.calls[1].callee = "verify_expression_or_max_cycles_error"
                     /\ last.calls[1].expected = "-"

\* a label was coerced to the type of the discriminant and the coercion
\* reported an error
C6_Witness ==
    /\ LabelHandled
    /\ last.op = "step"
    /\ Top.discriminant = "Number"
    /\ last.calls[1].callee = "imp_coerce_exp_or_max_cycles_error"
    /\ Reported(last.before) = <<>>
    /\ Reported(diagnostics) # <<>>

\* verify_statements stands at its loop
AtLoop == Running("verify_statements", "-", "loop")

\* one step of the machine seen from a verify_statements activation: from
\* its loop it can always take the next statement of the list, the statement
\* it hands to verify_statement is the next in list order, and no step of
\* the statements it verifies touches the activation
VerifyStatementsStep ==
    /\ (AtLoop /\ HasNext(stack, Top.i)) => ENABLED VerifyStatementsNext
    /\ (AtLoop /\ Len(stack') > Len(stack)) =>
            /\ stack'[Len(stack)].i = Top.i + 1
            /\ stack'[Len(stack')].fn = "verify_statement"
            /\ stack'[Len(stack')].node = Top.node \o <<Top.i + 1>>
    /\ \A k \in 1..(Len(stack) - 1) :
            (stack[k].fn = "verify_statements" /\ k <= Len(stack')) =>
                stack'[k] = stack[k]
    /\ (stack # <<>> /\ Top.fn = "verify_statement" /\ Len(stack') < Len(stack)
            /\ stack' # <<>> /\ stack'[Len(stack')].fn = "verify_statements") =>
                stack'[Len(stack')].pc = "loop"

\* C7: verify_statements verifies the statements of its list once each and
\* in list order, and goes on to the next statement whatever the statements
\* before it reported
C7_EachOnceInOrder == [][VerifyStatementsStep]_vars

\* the second statement of a block is handed to verify_statement after the
\* first one reported a diagnostic
C7_Witness ==
    /\ last.op = "call"
    /\ Len(stack) = 3
    /\ stack[1].kind = "Block"
    /\ stack[2].fn = "verify_statements"
    /\ stack[2].i = 2
    /\ last.node = <<1, 2>>
    /\ Reported(diagnostics) # <<>>

\* C8: a statement of a kind without an arm of its own changes neither the
\* diagnostics nor the scope stack, consults no collaborator and returns
C8_OtherKindsNoOp ==
    (last.op = "step" /\ last.fn = "verify_statement" /\ last.kind \in OtherKinds) =>
        /\ diagnostics = last.before
        /\ scope = last.scope_before
        /\ last.calls = <<>>
        /\ Top.pc = "return"

\* an empty statement was verified inside a block after a diagnostic
C8_Witness ==
    /\ last.op = "step"
    /\ last.kind = "EmptyStatement"
    /\ Len(scope) = Len(db.chain) + 1
    /\ Reported(diagnostics) # <<>>
    /\ diagnostics = last.before

\* one step of the dispatcher seen from the sink: what was in it stays in it,
\* unmodified and in the same order, in front of whatever the step appends
SinkStep ==
    /\ Len(diagnostics') >= Len(diagnostics)
    /\ SubSeq(diagnostics', 1, Len(diagnostics)) = diagnostics

\* C12: the diagnostics are append-only under every step of verify_statement,
\* verify_statements, verify_block and verify_super_stmt, so the diagnostics
\* present before any sequence of calls are a prefix of those afterwards
C12_AppendOnly == [][SinkStep]_vars

\* a super statement appended its diagnostic behind that of an earlier phase
C12_Witness ==
    /\ last.op = "step"
    /\ last.kind = "SuperStatement"
    /\ last.before = EarlierDiagnostics
    /\ Len(diagnostics) = 2
    /\ diagnostics[1] = EarlierDiagnostics[1]
    /\ diagnostics[2].kind = "IncorrectNumArguments"

\* a statement of this kind is the running activation
OnTop(kind) == stack # <<>> /\ Top.fn = "verify_statement" /\ Top.kind = kind

\* the running activation after the step, and the caller of a callee the
\* step has called
TopAfter == stack'[Len(stack')]

CallerAfter == stack'[Len(stack)]

HandsTo(fn, node) ==
    /\ Len(stack') = Len(stack) + 1
    /\ TopAfter.fn = fn
    /\ TopAfter.node = node
    /\ TopAfter.entry = ScopeMark(scope')

\* the activations under the running one are as they were
CallersUntouched ==
    \A k \in 1..(Len(stack) - 1) : k <= Len(stack') => stack'[k] = stack[k]

\* one step of a switch statement: the discriminant first; then case after
\* case in source order; in a case label after label, and then, always
\* possible and in the scope the switch was met in, the case's directives
SwitchStep ==
    OnTop("SwitchStatement") =>
        /\ scope' = scope
        /\ CallersUntouched
        /\ Top.pc = "start" =>
                /\ last'.calls = <<ExpressionCall("discriminant", Top.node)>>
                /\ Len(stack') = Len(stack)
                /\ TopAfter.pc = "cases"
                /\ TopAfter.i = 0
        /\ Top.pc = "cases" =>
                /\ Len(stack') = Len(stack)
                /\ last'.calls = <<>>
                /\ diagnostics' = diagnostics
                /\ \/ TopAfter.pc = "labels" /\ TopAfter.i = Top.i + 1 /\ TopAfter.j = 0
                   \/ TopAfter.pc = "return" /\ TopAfter.i = Top.i
        /\ Top.pc = "labels" =>
                /\ ENABLED SwitchCaseDirectives
                /\ \/ /\ Len(stack') = Len(stack)
                      /\ TopAfter.pc = "labels"
                      /\ TopAfter.i = Top.i
                      /\ TopAfter.j = Top.j + 1
                      /\ \A c \in 1..Len(last'.calls) :
                            last'.calls[c].node = Top.node \o <<Top.i, Top.j + 1>>
                   \/ /\ HandsTo("verify_statements", Top.node \o <<Top.i>>)
                      /\ CallerAfter.pc = "cases"
                      /\ CallerAfter.i = Top.i
                      /\ diagnostics' = diagnostics

\* C15: in a switch statement the discriminant is verified first, then the
\* cases in source order, in each case the labels before the directives; the
\* directives of every case are verified whatever the discriminant and the
\* labels gave, in the current scope, the switch entering no scope
C15_SwitchOrder == [][SwitchStep]_vars

\* the directives of the second case are verified after a diagnostic, the
\* discriminant having given no value
C15_Witness ==
    /\ last.op = "directives"
    /\ Len(stack) = 2
    /\ stack[1].kind = "SwitchStatement"
    /\ stack[1].discriminant = "None"
    /\ stack[1].i = 2
    /\ Top.fn = "verify_statements"
    /\ Top.node = <<1, 2>>
    /\ Reported(diagnostics) # <<>>
    /\ scope = InitialScopes(db)

\* the step verifies at most the expression `role` of the running statement,
\* in the scope mapped to that statement, and goes on to `pc`
VerifiesOptional(role, pc) ==
    /\ Len(stack') = Len(stack)
    /\ TopAfter.pc = pc
    /\ scope' = scope
    /\ CurrentScope(scope).id = Top.node
    /\ \/ last'.calls = <<ExpressionCall(role, Top.node)>>
       \/ last'.calls = <<>> /\ diagnostics' = diagnostics

\* the scope of every for statement under way is on the scope stack, right
\* above the scopes the statement was met in
LoopScopesEntered ==
    \A k \in DOMAIN stack :
        (stack[k].kind = "ForStatement" /\ stack[k].pc \notin {"start", "return"}) =>
            /\ Len(scope) > stack[k].entry.depth
            /\ scope[stack[k].entry.depth + 1].id = stack[k].node

\* one step of a for statement, in the order of its arm
ForStep ==
    /\ LoopScopesEntered
    /\ OnTop("ForStatement") =>
        /\ CallersUntouched
        /\ Top.pc = "start" =>
                /\ Len(stack') = Len(stack)
                /\ TopAfter.pc = "init"
                /\ Len(scope') = Len(scope) + 1
                /\ SubSeq(scope', 1, Len(scope)) = scope
                /\ CurrentScope(scope').id = Top.node
                /\ last'.calls = <<MappingCall(Top)>>
                /\ diagnostics' = diagnostics
        /\ Top.pc = "init" => VerifiesOptional("init", "test")
        /\ Top.pc = "test" => VerifiesOptional("test", "update")
        /\ Top.pc = "update" => VerifiesOptional("update", "body")
        /\ Top.pc = "body" =>
                /\ HandsTo("verify_statement", Top.node \o <<1>>)
                /\ CallerAfter.pc = "exit"
                /\ scope' = scope
                /\ CurrentScope(scope).id = Top.node
                /\ diagnostics' = diagnostics
        /\ Top.pc = "exit" =>
                /\ Len(stack') = Len(stack)
                /\ TopAfter.pc = "return"
                /\ CurrentScope(scope).id = Top.node
                /\ scope' = SubSeq(scope, 1, Len(scope) - 1)
                /\ diagnostics' = diagnostics

\* C16: a for statement enters its own scope, then verifies an expression
\* initializer if it has one (a declaration is not touched), then the test if
\* present, then the update if present, then the body, and then leaves the
\* scope; all four are verified with the loop's scope current or enclosing
C16_ForOrder == [][ForStep]_vars

\* the body of a for statement is handed over in the loop's scope after one
\* of its expressions reported a diagnostic
C16_Witness ==
    /\ last.op = "call"
    /\ Len(stack) = 2
    /\ stack[1].kind = "ForStatement"
    /\ stack[1].pc = "exit"
    /\ Top.node = <<1, 1>>
    /\ CurrentScope(scope).id = <<1>>
    /\ Len(scope) = Len(db.chain) + 1
    /\ Reported(diagnostics) # <<>>

\* the step appends at most one diagnostic behind those in the sink
AppendsAtMostOne ==
    \/ diagnostics' = diagnostics
    \/ /\ Len(diagnostics') = Len(diagnostics) + 1
       /\ SubSeq(diagnostics', 1, Len(diagnostics)) = diagnostics

\* one step of a do or while statement: a do statement hands its body over
\* before anything else and verifies its test once the body has returned; a
\* while statement verifies its test and only then hands its body over
LoopStep ==
    /\ OnTop("DoStatement") =>
        /\ scope' = scope
        /\ Top.pc = "start" =>
                /\ HandsTo("verify_statement", Top.node \o <<1>>)
                /\ CallerAfter.pc = "test"
                /\ last'.calls = <<>>
                /\ diagnostics' = diagnostics
        /\ Top.pc = "test" =>
                /\ Len(stack') = Len(stack)
                /\ TopAfter.pc = "return"
                /\ last'.calls = <<ExpressionCall("test", Top.node)>>
                /\ AppendsAtMostOne
    /\ OnTop("WhileStatement") =>
        /\ scope' = scope
        /\ Top.pc = "start" =>
                /\ last'.calls = <<ExpressionCall("test", Top.node)>>
                /\ AppendsAtMostOne
                /\ HandsTo("verify_statement", Top.node \o <<1>>)
                /\ CallerAfter.pc = "return"

Siblings(m, n) ==
    /\ m # n
    /\ Len(m) = Len(n)
    /\ Len(m) > 0
    /\ m[1] # 0
    /\ n[1] # 0
    /\ SubSeq(m, 1, Len(m) - 1) = SubSeq(n, 1, Len(n) - 1)

\* one step of a switch-on-type statement and of verify_block on its cases
SwitchTypeStep ==
    /\ \A a, b \in DOMAIN scope : ~Siblings(scope[a].id, scope[b].id)
    /\ OnTop("SwitchTypeStatement") =>
        /\ scope' = scope
        /\ CallersUntouched
        /\ ScopeMark(scope) = Top.entry
        /\ Top.pc = "start" =>
                /\ last'.calls = <<ExpressionCall("discriminant", Top.node)>>
                /\ Len(stack') = Len(stack)
                /\ TopAfter.pc = "cases"
                /\ TopAfter.i = 0
        /\ Top.pc = "cases" =>
                /\ diagnostics' = diagnostics
                /\ \/ /\ HandsTo("verify_block", Top.node \o <<Top.i + 1>>)
                      /\ CallerAfter.pc = "cases"
                      /\ CallerAfter.i = Top.i + 1
                   \/ /\ Len(stack') = Len(stack)
                      /\ TopAfter.pc = "return"
    /\ (stack # <<>> /\ Top.fn = "verify_block") =>
        /\ CallersUntouched
        /\ diagnostics' = diagnostics
        /\ Top.pc = "start" =>
                /\ last'.calls = <<MappingCall(Top)>>
                /\ Len(scope') = Len(scope) + 1
                /\ SubSeq(scope', 1, Len(scope)) = scope
                /\ CurrentScope(scope').id = Top.node
                /\ HandsTo("verify_statements", Top.node)
                /\ CallerAfter.pc = "exit"
        /\ Top.pc = "exit" =>
                /\ CurrentScope(scope).id = Top.node
                /\ scope' = SubSeq(scope, 1, Len(scope) - 1)
                /\ ScopeMark(scope') = Top.entry
                /\ Len(stack') = Len(stack)
                /\ TopAfter.pc = "return"

\* C18: a switch-on-type statement verifies its discriminant first, in the
\* scope it was met in, then its case blocks in source order, each inside
\* the scope mapped to the block node, entered and left before the next
\* case is taken up: the scopes of two cases are never on the scope stack
\* together
C18_SwitchTypeCases == [][SwitchTypeStep]_vars

\* the scope of the second case block is entered, that of the first gone
C18_Witness ==
    /\ last.op = "enter"
    /\ last.fn = "verify_block"
    /\ last.node = <<1, 2>>
    /\ stack[1].kind = "SwitchTypeStatement"
    /\ stack[1].i = 2
    /\ Len(scope) = Len(db.chain) + 1
    /\ CurrentScope(scope).id = <<1, 2>>

\* kinds whose arm neither looks a scope up nor enters one
PassThroughKinds ==
    {"LabeledStatement", "IfStatement", "SwitchStatement", "DoStatement",
     "WhileStatement"}

\* the scoped node nearest to the k-th activation among the first k, as the
\* identity of its scope; without one, the scope that was current when the
\* top-level call began
RECURSIVE EnclosingScopeId(_, _)
EnclosingScopeId(stk, k) ==
    IF k = 0 THEN stk[1].entry.current
    ELSE IF Scoped(stk[k]) THEN stk[k].node
    ELSE EnclosingScopeId(stk, k - 1)

\* the step verifies an expression, or the arguments of a super statement
VerifiesExpression == \E k \in DOMAIN last'.calls : last'.calls[k].callee # "node_mapping"

\* one step seen from the current scope
CurrentScopeStep ==
    /\ (stack # <<>> /\ Top.fn = "verify_statement" /\ Top.pc = "start") =>
            CurrentScope(scope).id = EnclosingScopeId(stack, Len(stack) - 1)
    /\ (stack # <<>> /\ VerifiesExpression) =>
            /\ CurrentScope(scope).id = EnclosingScopeId(stack, Len(stack))
            /\ scope' = scope
    /\ (stack # <<>> /\ Top.fn = "verify_statement" /\ Top.kind \in PassThroughKinds) =>
            /\ scope' = scope
            /\ ScopeMark(scope) = Top.entry
            /\ Len(stack') > Len(stack) => TopAfter.entry = Top.entry

\* C19: when a statement or an expression is verified, the current scope is
\* the scope of the nearest Block, for statement or switch-on-type case block
\* around it in the traversed tree, or, without one, the scope that was
\* current when the top-level call began; labeled, if, switch, do-while and
\* while statements leave the current scope as it is for their children
C19_CurrentScopeIsLexical == [][CurrentScopeStep]_vars

\* the second statement of a block is an expression statement: it is
\* verified in the scope of the block around it
C19_Witness ==
    /\ last.op = "step"
    /\ last.kind = "ExpressionStatement"
    /\ last.node = <<1, 2>>
    /\ last.calls # <<>>
    /\ Len(stack) = 3
    /\ stack[1].kind = "Block"
    /\ CurrentScope(last.scope_before).id = <<1>>
    /\ last.entry.current = <<1>>

=============================================================================
